---- MODULE Spec2Model ----
(***************************************************************************)
(* Model of cmd/influxd/upgrade/upgrade.go: the 1.x -> 2.x upgrade command *)
(* (runUpgradeE), its path validation (validatePaths), the bootstrap of   *)
(* the 2.x services (newInfluxDBv2), their release (influxDBv2.close) and  *)
(* the URL derivation of the 1.x config (configV1.dbURL).                  *)
(*                                                                         *)
(* The filesystem is a record from the paths the command touches to the    *)
(* kind of entry found there; "exists" means os.Stat returns no error.     *)
(***************************************************************************)
EXTENDS Integers, Sequences, FiniteSets, TLC

VARIABLES
    pc,             \* position of runUpgradeE
    runs,           \* number of the current invocation of the command
    err,            \* phase whose error runUpgradeE returns ("none" = nil)
    msg,            \* [kind, path] of the error returned by validatePaths
    prevErr,        \* err of the previous invocation
    fs,             \* filesystem: path -> kind of entry
    fs0,            \* filesystem when the current invocation started
    cfgGiven,       \* options.source.configFile != ""
    v1Config,       \* content of the 1.x config file (configV1)
    options,        \* the global options (source and target fields)
    authEnabled,    \* local authEnabled of runUpgradeE
    h,              \* handles: v1 meta client, bolt client, kv store, v2 meta client, engine
    canOnboard,     \* result of onboardSvc.IsOnboarding in this invocation
    setupCalls,     \* calls of setupAdmin in this invocation
    removeCalls,    \* paths on which os.Remove / os.RemoveAll was called in this invocation
    closeCalls,     \* handles on which influxDBv2.close called Close, in call order
    storeOnboarded, \* content of the bolt file: an organization or user exists
    setupCount,     \* onboarding operations applied to the bolt file now on disk
    envTouched,     \* another process has written to a target path
    usersUpgraded,  \* count returned by upgradeUsers
    warned,         \* the warning about unenforced V1 credentials was logged
    address,        \* dbURL: c.Http.BindAddress
    https,          \* dbURL: c.Http.HttpsEnabled
    urlHost,        \* dbURL: url.Host
    urlStr,         \* dbURL: the returned url.String()
    urlPc,          \* dbURL: "call" before, "ret" after
    migSpecs,       \* migrator: the ordered migration list given to NewMigrator
    migApplied,     \* migrator: identifiers recorded in the store, in the order applied
    migBefore,      \* migrator: migApplied when the last Up started
    migCount,       \* migrator: how often the effect of each migration has run
    migUps,         \* migrator: number of Up calls so far
    migLastNew,     \* migrator: number of migrations the last Up applied
    migLastOk,      \* migrator: the last Up returned nil
    migOkBefore     \* migrator: the Up before the last one returned nil

pipeVars == <<pc, runs, err, msg, prevErr, fs, fs0, cfgGiven, v1Config, options,
              authEnabled, h, canOnboard, setupCalls, removeCalls, closeCalls,
              storeOnboarded, setupCount, envTouched,
              usersUpgraded, warned>>
urlVars == <<address, https, urlHost, urlStr, urlPc>>
migVars == <<migSpecs, migApplied, migBefore, migCount, migUps, migLastNew, migLastOk,
             migOkBefore>>
pureVars == <<urlVars, migVars>>
vars == <<pipeVars, urlVars, migVars>>

(***************************************************************************)
(* Bounds                                                                  *)
(***************************************************************************)
MaxRuns == 2
MaxLen == 3
MaxUsers == 2
NumIds == 3
MaxUps == 3

(***************************************************************************)
(* configV1.dbURL                                                          *)
(***************************************************************************)
Chars == {":", "8", "h", " "}

RECURSIVE SeqsUpTo(_)
SeqsUpTo(n) ==
    IF n = 0 THEN {<<>>}
    ELSE LET S == SeqsUpTo(n - 1)
         IN S \cup {Append(s, c) : s \in {t \in S : Len(t) = n - 1}, c \in Chars}

Addresses == SeqsUpTo(MaxLen)

DefaultAddress == <<":", "8", "0", "8", "6">>
Localhost == <<"l", "o", "c", "a", "l", "h", "o", "s", "t">>

HasPrefix(s, p) == Len(s) >= Len(p) /\ SubSeq(s, 1, Len(p)) = p

\* net/url escape(host, encodeHost): the characters of a host that are kept.
HostKeeps == {":", "8", "0", "6", "h", "l", "o", "c", "a", "s", "t"}

RECURSIVE escapeHost(_)
escapeHost(s) ==
    IF s = <<>> THEN <<>>
    ELSE (IF Head(s) \in HostKeeps THEN <<Head(s)>> ELSE <<"%", "2", "0">>)
         \o escapeHost(Tail(s))

urlString(scheme, host) ==
    scheme \o <<":">> \o (IF host # <<>> THEN <<"/", "/">> \o escapeHost(host) ELSE <<>>)

dbURLAddress(a) == IF a = <<>> THEN DefaultAddress ELSE a

dbURLScheme(tls) == IF tls THEN <<"h", "t", "t", "p", "s">> ELSE <<"h", "t", "t", "p">>

dbURLHost_NoLocalhost(a) == dbURLAddress(a)

dbURLHost(a) ==
    LET addr == dbURLAddress(a)
    IN IF HasPrefix(addr, <<":">>) THEN Localhost \o addr ELSE addr

dbURL(a, tls) == urlString(dbURLScheme(tls), dbURLHost(a))

(***************************************************************************)
(* The filesystem and validatePaths                                        *)
(***************************************************************************)
\* dbDir: options.source.dbDir; metaDb: <dbDir>/meta/meta.db;
\* configFile: options.source.configFile; v2Config: its translated path;
\* bolt, engine, cliConfigs, cq: options.target.*Path; log: options.logPath.
Paths == {"dbDir", "metaDb", "configFile", "v2Config", "bolt", "engine",
          "cliConfigs", "cq", "log"}

\* An engine path can be a directory that is empty, one that has entries, or
\* one whose entries ioutil.ReadDir cannot list.
EngineKinds == {"absent", "file", "emptydir", "nonemptydir", "unreadabledir"}

Exists(f, p) == f[p] # "absent"

IsDir(f, p) == f[p] \in {"dir", "emptydir", "nonemptydir", "unreadabledir"}

NoError == [kind |-> "ok", path |-> "-"]

translateV1ConfigPath(p) == IF p = "configFile" THEN "v2Config" ELSE p

\* optionsV1.populateDirs: filepath.Join(o.dbDir, "meta") and so on.
populateDirs(o) ==
    [o EXCEPT !.metaDir = "dbDir/meta", !.dataDir = "dbDir/data", !.walDir = "dbDir/wal"]

\* filepath.Join(metaDir, "meta.db") as a path of the filesystem record.
MetaDbPath(metaDir) == IF metaDir = "dbDir/meta" THEN "metaDb" ELSE "otherMetaDb"

validateTargets_NoBolt(f) ==
    IF Exists(f, "engine") /\ ~IsDir(f, "engine")
        THEN [kind |-> "engineNotDir", path |-> "engine"]
    ELSE IF f["engine"] = "unreadabledir"
        THEN [kind |-> "readDirErr", path |-> "engine"]
    ELSE IF f["engine"] = "nonemptydir"
        THEN [kind |-> "engineNotEmpty", path |-> "engine"]
    ELSE IF Exists(f, "cliConfigs") THEN [kind |-> "cliPresent", path |-> "cliConfigs"]
    ELSE IF Exists(f, "cq") THEN [kind |-> "cqPresent", path |-> "cq"]
    ELSE NoError

validateTargets_NoEmptyCheck(f) ==
    IF Exists(f, "bolt") THEN [kind |-> "boltPresent", path |-> "bolt"]
    ELSE IF Exists(f, "engine") /\ ~IsDir(f, "engine")
        THEN [kind |-> "engineNotDir", path |-> "engine"]
    ELSE IF f["engine"] = "unreadabledir"
        THEN [kind |-> "readDirErr", path |-> "engine"]
    ELSE IF Exists(f, "cliConfigs") THEN [kind |-> "cliPresent", path |-> "cliConfigs"]
    ELSE IF Exists(f, "cq") THEN [kind |-> "cqPresent", path |-> "cq"]
    ELSE NoError

validateTargets_NoCq(f) ==
    IF Exists(f, "bolt") THEN [kind |-> "boltPresent", path |-> "bolt"]
    ELSE IF Exists(f, "engine") /\ ~IsDir(f, "engine")
        THEN [kind |-> "engineNotDir", path |-> "engine"]
    ELSE IF f["engine"] = "unreadabledir"
        THEN [kind |-> "readDirErr", path |-> "engine"]
    ELSE IF f["engine"] = "nonemptydir"
        THEN [kind |-> "engineNotEmpty", path |-> "engine"]
    ELSE IF Exists(f, "cliConfigs") THEN [kind |-> "cliPresent", path |-> "cliConfigs"]
    ELSE NoError

validateTargets_CliFirst(f) ==
    IF Exists(f, "cliConfigs") THEN [kind |-> "cliPresent", path |-> "cliConfigs"]
    ELSE IF Exists(f, "bolt") THEN [kind |-> "boltPresent", path |-> "bolt"]
    ELSE IF Exists(f, "engine") /\ ~IsDir(f, "engine")
        THEN [kind |-> "engineNotDir", path |-> "engine"]
    ELSE IF f["engine"] = "unreadabledir"
        THEN [kind |-> "readDirErr", path |-> "engine"]
    ELSE IF f["engine"] = "nonemptydir"
        THEN [kind |-> "engineNotEmpty", path |-> "engine"]
    ELSE IF Exists(f, "cq") THEN [kind |-> "cqPresent", path |-> "cq"]
    ELSE NoError

\* The target-side checks of validatePaths, in program order.
validateTargets(f) ==
    IF Exists(f, "bolt") THEN [kind |-> "boltPresent", path |-> "bolt"]
    ELSE IF Exists(f, "engine") /\ ~IsDir(f, "engine")
        THEN [kind |-> "engineNotDir", path |-> "engine"]
    ELSE IF f["engine"] = "unreadabledir"
        THEN [kind |-> "readDirErr", path |-> "engine"]
    ELSE IF f["engine"] = "nonemptydir"
        THEN [kind |-> "engineNotEmpty", path |-> "engine"]
    ELSE IF Exists(f, "cliConfigs") THEN [kind |-> "cliPresent", path |-> "cliConfigs"]
    ELSE IF Exists(f, "cq") THEN [kind |-> "cqPresent", path |-> "cq"]
    ELSE NoError

validatePaths(f, given) ==
    IF ~Exists(f, "dbDir") THEN [kind |-> "dbDirMissing", path |-> "dbDir"]
    ELSE IF ~IsDir(f, "dbDir") THEN [kind |-> "dbDirNotDir", path |-> "dbDir"]
    ELSE IF ~Exists(f, MetaDbPath("dbDir/meta"))
        THEN [kind |-> "metaDbMissing", path |-> MetaDbPath("dbDir/meta")]
    ELSE IF given /\ ~Exists(f, "configFile")
        THEN [kind |-> "configMissing", path |-> "configFile"]
    ELSE IF given /\ Exists(f, translateV1ConfigPath("configFile"))
        THEN [kind |-> "v2ConfigPresent", path |-> translateV1ConfigPath("configFile")]
    ELSE validateTargets(f)

\* validatePaths calls populateDirs once the source root is a directory.
optionsAfterValidate(o, f) ==
    IF Exists(f, "dbDir") /\ IsDir(f, "dbDir") THEN populateDirs(o) ELSE o

(***************************************************************************)
(* Initial states: any filesystem the command can be started on            *)
(***************************************************************************)
NoConfig ==
    [MetaDir |-> "", DataDir |-> "", WALDir |-> "", BindAddress |-> <<>>,
     HttpsEnabled |-> FALSE, AuthEnabled |-> FALSE]

Configs ==
    [MetaDir : {"dbDir/meta", "/other/meta"}, DataDir : {"cfg/data"}, WALDir : {"cfg/wal"},
     BindAddress : {<<>>, <<"h", ":", "8">>}, HttpsEnabled : {FALSE},
     AuthEnabled : BOOLEAN]

InitOptions ==
    [metaDir |-> "", dataDir |-> "", walDir |-> "", dbURL |-> <<>>,
     orgID |-> 0, userID |-> 0, token |-> ""]

NoHandles ==
    [v1meta |-> "none", boltClient |-> "none", store |-> "none", meta |-> "none",
     engine |-> "none"]

Filesystems ==
    {f \in [dbDir : {"absent", "file", "dir"}, metaDb : {"absent", "file"},
            configFile : {"absent", "file"}, v2Config : {"absent", "file"},
            bolt : {"absent", "file"}, engine : EngineKinds,
            cliConfigs : {"absent", "file"}, cq : {"absent", "file"},
            log : {"absent", "file"}] :
        f.metaDb = "file" => f.dbDir = "dir"}

MigIdle ==
    /\ migSpecs = <<>>
    /\ migApplied = <<>>
    /\ migBefore = <<>>
    /\ migCount = [i \in 1..NumIds |-> 0]
    /\ migUps = 0
    /\ migLastNew = 0
    /\ migLastOk = FALSE
    /\ migOkBefore = FALSE

UrlIdle ==
    /\ address = <<>>
    /\ https = FALSE
    /\ urlHost = <<>>
    /\ urlStr = <<>>
    /\ urlPc = "idle"

Init ==
    /\ pc = "start"
    /\ runs = 1
    /\ err = "none"
    /\ msg = NoError
    /\ prevErr = "none"
    /\ fs \in Filesystems
    /\ fs0 = fs
    /\ cfgGiven \in BOOLEAN
    /\ ~cfgGiven => fs.configFile = "absent" /\ fs.v2Config = "absent"
    /\ v1Config \in (IF cfgGiven THEN Configs ELSE {NoConfig})
    /\ options = InitOptions
    /\ authEnabled = FALSE
    /\ h = NoHandles
    /\ canOnboard = "unknown"
    /\ setupCalls = 0
    /\ removeCalls = {}
    /\ closeCalls = <<>>
    /\ storeOnboarded \in (IF fs.bolt = "file" THEN BOOLEAN ELSE {FALSE})
    /\ setupCount = (IF storeOnboarded THEN 1 ELSE 0)
    /\ envTouched = FALSE
    /\ usersUpgraded = 0
    /\ warned = FALSE
    /\ UrlIdle
    /\ MigIdle

(***************************************************************************)
(* runUpgradeE, from its start to the bootstrap of the 2.x services        *)
(***************************************************************************)
\* lvl.Set(options.logLevel) and config.Build(): the logger opens options.logPath.
Begin ==
    /\ pc = "start"
    /\ \E lvlOk \in BOOLEAN, buildOk \in BOOLEAN :
        IF ~lvlOk THEN pc' = "done" /\ err' = "logLevel" /\ fs' = fs
        ELSE IF ~buildOk THEN pc' = "done" /\ err' = "logBuild" /\ fs' = fs
        ELSE pc' = "validatePaths" /\ err' = err /\ fs' = [fs EXCEPT !.log = "file"]
    /\ UNCHANGED <<runs, msg, prevErr, fs0, cfgGiven, v1Config, options, authEnabled, h,
                   canOnboard, setupCalls, removeCalls, closeCalls, storeOnboarded,
                   setupCount, envTouched, usersUpgraded, warned, pureVars>>

ValidatePaths ==
    /\ pc = "validatePaths"
    /\ msg' = validatePaths(fs, cfgGiven)
    /\ options' = optionsAfterValidate(options, fs)
    /\ IF msg'.kind = "ok"
       THEN pc' = "upgradeConfig" /\ err' = err
       ELSE pc' = "done" /\ err' = "validatePaths"
    /\ UNCHANGED <<runs, prevErr, fs, fs0, cfgGiven, v1Config, authEnabled, h,
                   canOnboard, setupCalls, removeCalls, closeCalls, storeOnboarded,
                   setupCount, envTouched, usersUpgraded, warned, pureVars>>

\* upgradeConfig writes the translated 2.x config next to the 1.x one.
upgradeConfigFs(f) == [f EXCEPT !.v2Config = "file"]

optionsAfterConfig_SetsToken(o, c) ==
    [o EXCEPT !.metaDir = c.MetaDir, !.dataDir = c.DataDir, !.walDir = c.WALDir,
              !.dbURL = dbURL(c.BindAddress, c.HttpsEnabled), !.token = "config"]

optionsAfterConfig(o, c) ==
    [o EXCEPT !.metaDir = c.MetaDir, !.dataDir = c.DataDir, !.walDir = c.WALDir,
              !.dbURL = dbURL(c.BindAddress, c.HttpsEnabled)]

UpgradeConfig ==
    /\ pc = "upgradeConfig"
    /\ IF cfgGiven
       THEN \E ok \in BOOLEAN :
            IF ok
            THEN /\ fs' = upgradeConfigFs(fs)
                 /\ options' = optionsAfterConfig(options, v1Config)
                 /\ authEnabled' = v1Config.AuthEnabled
                 /\ pc' = "newInfluxDBv1"
                 /\ err' = err
            ELSE /\ pc' = "done"
                 /\ err' = "upgradeConfig"
                 /\ UNCHANGED <<fs, options, authEnabled>>
       ELSE /\ pc' = "newInfluxDBv1"
            /\ UNCHANGED <<fs, options, authEnabled, err>>
    /\ UNCHANGED <<runs, msg, prevErr, fs0, cfgGiven, v1Config, h,
                   canOnboard, setupCalls, removeCalls, closeCalls, storeOnboarded,
                   setupCount, envTouched, usersUpgraded, warned, pureVars>>

\* newInfluxDBv1: openV1Meta(opts.metaDir) opens the 1.x meta client.
NewInfluxDBv1 ==
    /\ pc = "newInfluxDBv1"
    /\ \E ok \in BOOLEAN :
        IF ok
        THEN h' = [h EXCEPT !.v1meta = "open"] /\ pc' = "newInfluxDBv2" /\ err' = err
        ELSE h' = h /\ pc' = "done" /\ err' = "newInfluxDBv1"
    /\ UNCHANGED <<runs, msg, prevErr, fs, fs0, cfgGiven, v1Config, options, authEnabled,
                   canOnboard, setupCalls, removeCalls, closeCalls, storeOnboarded,
                   setupCount, envTouched, usersUpgraded, warned, pureVars>>

\* Another process creates an onboarded bolt file at options.target.boltPath
\* after validatePaths has looked at it and before bolt.Client.Open.
EnvPlaceStore ==
    /\ pc = "newInfluxDBv2"
    /\ fs.bolt = "absent"
    /\ ~envTouched
    /\ fs' = [fs EXCEPT !.bolt = "file"]
    /\ storeOnboarded' = TRUE
    /\ setupCount' = 1
    /\ envTouched' = TRUE
    /\ UNCHANGED <<pc, runs, err, msg, prevErr, fs0, cfgGiven, v1Config, options,
                   authEnabled, h, canOnboard, setupCalls, removeCalls, closeCalls,
                   usersUpgraded, warned, pureVars>>

\* The steps of newInfluxDBv2 that can return an error, in program order.
V2Steps == <<"boltOpen", "newMigrator", "migratorUp", "metaOpen", "authStoreV2",
             "authStoreV1">>

V2Index(step) == CHOOSE i \in 1..Len(V2Steps) : V2Steps[i] = step

\* The handles in the order in which newInfluxDBv2 acquires them.
AcquireOrder == <<"boltClient", "store", "meta", "engine">>

\* The handles newInfluxDBv2 has acquired when it fails at failAt ("none": it
\* succeeds). None of its error returns closes anything.
handlesAfterV2(hh, failAt) ==
    LET k == IF failAt = "none" THEN Len(V2Steps) + 1 ELSE V2Index(failAt)
    IN [hh EXCEPT !.boltClient = IF k > 1 THEN "open" ELSE @,
                  !.store = IF k > 1 THEN "open" ELSE @,
                  !.meta = IF k > 4 THEN "open" ELSE @,
                  !.engine = IF k > 4 THEN "constructed" ELSE @]

\* bolt.Client.Open creates the file at opts.boltPath when there is none.
fsAfterV2(f, failAt) == IF failAt = "boltOpen" THEN f ELSE [f EXCEPT !.bolt = "file"]

NewInfluxDBv2 ==
    /\ pc = "newInfluxDBv2"
    /\ \E failAt \in {V2Steps[i] : i \in 1..Len(V2Steps)} \cup {"none"} :
        /\ h' = handlesAfterV2(h, failAt)
        /\ fs' = fsAfterV2(fs, failAt)
        /\ IF failAt = "none"
           THEN pc' = "isOnboarding" /\ err' = err
           ELSE pc' = "done" /\ err' = failAt
    /\ UNCHANGED <<runs, msg, prevErr, fs0, cfgGiven, v1Config, options, authEnabled,
                   canOnboard, setupCalls, removeCalls, closeCalls, storeOnboarded,
                   setupCount, envTouched, usersUpgraded, warned, pureVars>>

(***************************************************************************)
(* runUpgradeE, from the onboarding check to its return                    *)
(***************************************************************************)
\* tenant OnboardService.IsOnboarding: onboarding is allowed on a store that
\* has no user and no organization.
isOnboarding(onboarded) == ~onboarded

mayOnboard_Always(can) == TRUE

mayOnboard_Inverted(can) == ~can

\* if !canOnboard { return errors.New("InfluxDB has been already set up") }
mayOnboard(can) == can

IsOnboarding ==
    /\ pc = "isOnboarding"
    /\ \E ok \in BOOLEAN :
        IF ~ok
        THEN pc' = "close" /\ err' = "isOnboarding" /\ canOnboard' = canOnboard
        ELSE /\ canOnboard' = (IF isOnboarding(storeOnboarded) THEN "true" ELSE "false")
             /\ IF mayOnboard(isOnboarding(storeOnboarded))
                THEN pc' = "onboardingRequest" /\ err' = err
                ELSE pc' = "close" /\ err' = "alreadySetUp"
    /\ UNCHANGED <<runs, msg, prevErr, fs, fs0, cfgGiven, v1Config, options, authEnabled,
                   h, setupCalls, removeCalls, closeCalls, storeOnboarded, setupCount,
                   envTouched, usersUpgraded, warned, pureVars>>

OnboardingRequest_NoReturn ==
    /\ pc = "onboardingRequest"
    /\ \E ok \in BOOLEAN :
        IF ok
        THEN pc' = "setupAdmin" /\ err' = err
        ELSE pc' = "setupAdmin" /\ err' = "onboardingRequest"
    /\ UNCHANGED <<runs, msg, prevErr, fs, fs0, cfgGiven, v1Config, options, authEnabled,
                   h, canOnboard, setupCalls, removeCalls, closeCalls, storeOnboarded,
                   setupCount, envTouched, usersUpgraded, warned, pureVars>>

\* onboardingRequest() builds the request from the options; it can fail.
OnboardingRequest ==
    /\ pc = "onboardingRequest"
    /\ \E ok \in BOOLEAN :
        IF ok
        THEN pc' = "setupAdmin" /\ err' = err
        ELSE pc' = "close" /\ err' = "onboardingRequest"
    /\ UNCHANGED <<runs, msg, prevErr, fs, fs0, cfgGiven, v1Config, options, authEnabled,
                   h, canOnboard, setupCalls, removeCalls, closeCalls, storeOnboarded,
                   setupCount, envTouched, usersUpgraded, warned, pureVars>>

\* options.target.orgID, userID and token are set from the onboarding result.
optionsAfterSetup(o) == [o EXCEPT !.orgID = 1, !.userID = 1, !.token = "token"]

\* setupAdmin: one onboarding operation on the store; a failed one may have
\* written part of the identity.
SetupAdmin ==
    /\ pc = "setupAdmin"
    /\ setupCalls' = setupCalls + 1
    /\ setupCount' = setupCount + 1
    /\ \E ok \in BOOLEAN, partial \in BOOLEAN :
        IF ok
        THEN /\ storeOnboarded' = TRUE
             /\ options' = optionsAfterSetup(options)
             /\ pc' = "saveLocalConfig"
             /\ err' = err
        ELSE /\ storeOnboarded' = (storeOnboarded \/ partial)
             /\ options' = options
             /\ pc' = "close"
             /\ err' = "setupAdmin"
    /\ UNCHANGED <<runs, msg, prevErr, fs, fs0, cfgGiven, v1Config, authEnabled,
                   h, canOnboard, removeCalls, closeCalls, envTouched, usersUpgraded,
                   warned, pureVars>>

\* saveLocalConfig writes the CLI configuration at options.target.cliConfigsPath.
saveLocalConfigFs(f) == [f EXCEPT !.cliConfigs = "file"]

SaveLocalConfig ==
    /\ pc = "saveLocalConfig"
    /\ \E ok \in BOOLEAN :
        IF ok
        THEN fs' = saveLocalConfigFs(fs) /\ pc' = "upgradeDatabases" /\ err' = err
        ELSE fs' = fs /\ pc' = "close" /\ err' = "saveLocalConfig"
    /\ UNCHANGED <<runs, msg, prevErr, fs0, cfgGiven, v1Config, options, authEnabled,
                   h, canOnboard, setupCalls, removeCalls, closeCalls, storeOnboarded,
                   setupCount, envTouched, usersUpgraded, warned, pureVars>>

\* upgradeDatabases copies shard files under options.target.enginePath and
\* exports the continuous queries to options.target.cqPath; a failing call can
\* have done part of it.
upgradeDatabasesFs(f, engineWritten, cqWritten) ==
    [f EXCEPT !.engine = IF engineWritten THEN "nonemptydir" ELSE @,
              !.cq = IF cqWritten THEN "file" ELSE @]

\* os.Remove(options.target.boltPath) and os.RemoveAll(options.target.enginePath):
\* each is called, each can fail, and a failure is logged only.
rollback(f, boltRemoved, engineRemoved) ==
    [f EXCEPT !.bolt = IF boltRemoved THEN "absent" ELSE @,
              !.engine = IF engineRemoved THEN "absent" ELSE @]

RollbackCalls == {"bolt", "engine"}

UpgradeDatabases_StopOnRemoveError ==
    /\ pc = "upgradeDatabases"
    /\ \E ok \in BOOLEAN, engineWritten \in BOOLEAN, cqWritten \in BOOLEAN,
          boltRemoved \in BOOLEAN, engineRemoved \in BOOLEAN :
        IF ok
        THEN /\ fs' = upgradeDatabasesFs(fs, engineWritten, cqWritten)
             /\ pc' = "upgradeUsers"
             /\ UNCHANGED <<err, removeCalls, storeOnboarded, setupCount>>
        ELSE IF ~boltRemoved
        THEN /\ fs' = upgradeDatabasesFs(fs, engineWritten, cqWritten)
             /\ removeCalls' = removeCalls \cup {"bolt"}
             /\ pc' = "close"
             /\ err' = "removeBolt"
             /\ UNCHANGED <<storeOnboarded, setupCount>>
        ELSE /\ fs' = rollback(upgradeDatabasesFs(fs, engineWritten, cqWritten),
                               boltRemoved, engineRemoved)
             /\ removeCalls' = removeCalls \cup RollbackCalls
             /\ storeOnboarded' = FALSE
             /\ setupCount' = 0
             /\ pc' = "close"
             /\ err' = "upgradeDatabases"
    /\ UNCHANGED <<runs, msg, prevErr, fs0, cfgGiven, v1Config, options, authEnabled,
                   h, canOnboard, setupCalls, closeCalls, envTouched, usersUpgraded,
                   warned, pureVars>>

UpgradeDatabases ==
    /\ pc = "upgradeDatabases"
    /\ \E ok \in BOOLEAN, engineWritten \in BOOLEAN, cqWritten \in BOOLEAN,
          boltRemoved \in BOOLEAN, engineRemoved \in BOOLEAN :
        IF ok
        THEN /\ fs' = upgradeDatabasesFs(fs, engineWritten, cqWritten)
             /\ pc' = "upgradeUsers"
             /\ UNCHANGED <<err, removeCalls, storeOnboarded, setupCount>>
        ELSE /\ fs' = rollback(upgradeDatabasesFs(fs, engineWritten, cqWritten),
                               boltRemoved, engineRemoved)
             /\ removeCalls' = removeCalls \cup RollbackCalls
             /\ storeOnboarded' = (IF fs'.bolt = "absent" THEN FALSE ELSE storeOnboarded)
             /\ setupCount' = (IF fs'.bolt = "absent" THEN 0 ELSE setupCount)
             /\ pc' = "close"
             /\ err' = "upgradeDatabases"
    /\ UNCHANGED <<runs, msg, prevErr, fs0, cfgGiven, v1Config, options, authEnabled,
                   h, canOnboard, setupCalls, closeCalls, envTouched, usersUpgraded,
                   warned, pureVars>>

UpgradeUsers_Rollback ==
    /\ pc = "upgradeUsers"
    /\ \E ok \in BOOLEAN, n \in 0..MaxUsers, boltRemoved \in BOOLEAN,
          engineRemoved \in BOOLEAN :
        IF ok
        THEN /\ usersUpgraded' = n
             /\ warned' = (n > 0 /\ ~authEnabled)
             /\ err' = err
             /\ UNCHANGED <<fs, removeCalls, storeOnboarded, setupCount>>
        ELSE /\ fs' = rollback(fs, boltRemoved, engineRemoved)
             /\ removeCalls' = removeCalls \cup RollbackCalls
             /\ storeOnboarded' = (IF fs'.bolt = "absent" THEN FALSE ELSE storeOnboarded)
             /\ setupCount' = (IF fs'.bolt = "absent" THEN 0 ELSE setupCount)
             /\ err' = "upgradeUsers"
             /\ UNCHANGED <<usersUpgraded, warned>>
    /\ pc' = "close"
    /\ UNCHANGED <<runs, msg, prevErr, fs0, cfgGiven, v1Config, options, authEnabled,
                   h, canOnboard, setupCalls, closeCalls, envTouched, pureVars>>

UpgradeUsers_WarnAny ==
    /\ pc = "upgradeUsers"
    /\ \E ok \in BOOLEAN, n \in 0..MaxUsers :
        IF ok
        THEN /\ usersUpgraded' = n
             /\ warned' = (n > 0)
             /\ err' = err
        ELSE /\ err' = "upgradeUsers"
             /\ UNCHANGED <<usersUpgraded, warned>>
    /\ pc' = "close"
    /\ UNCHANGED <<runs, msg, prevErr, fs, fs0, cfgGiven, v1Config, options, authEnabled,
                   h, canOnboard, setupCalls, removeCalls, closeCalls, storeOnboarded,
                   setupCount, envTouched, pureVars>>

UpgradeUsers ==
    /\ pc = "upgradeUsers"
    /\ \E ok \in BOOLEAN, n \in 0..MaxUsers :
        IF ok
        THEN /\ usersUpgraded' = n
             /\ warned' = (n > 0 /\ ~authEnabled)
             /\ err' = err
        ELSE /\ err' = "upgradeUsers"
             /\ UNCHANGED <<usersUpgraded, warned>>
    /\ pc' = "close"
    /\ UNCHANGED <<runs, msg, prevErr, fs, fs0, cfgGiven, v1Config, options, authEnabled,
                   h, canOnboard, setupCalls, removeCalls, closeCalls, storeOnboarded,
                   setupCount, envTouched, pureVars>>

\* influxDBv2.close: meta, then boltClient, then store; it returns at the first
\* Close that fails.
CloseOrder == <<"meta", "boltClient", "store">>

closeReach(failAt) ==
    IF failAt = "none" THEN Len(CloseOrder)
    ELSE CHOOSE i \in 1..Len(CloseOrder) : CloseOrder[i] = failAt

closeState(old, i, failAt) ==
    IF i > closeReach(failAt) THEN old
    ELSE IF CloseOrder[i] = failAt THEN "closeErr" ELSE "closed"

close(hh, failAt) ==
    [hh EXCEPT !.meta = closeState(@, 1, failAt),
               !.boltClient = closeState(@, 2, failAt),
               !.store = closeState(@, 3, failAt)]

DeferredClose_ReturnsCloseError ==
    /\ pc = "close"
    /\ \E failAt \in {CloseOrder[i] : i \in 1..Len(CloseOrder)} \cup {"none"} :
        /\ h' = close(h, failAt)
        /\ closeCalls' = SubSeq(CloseOrder, 1, closeReach(failAt))
        /\ err' = (IF failAt # "none" /\ err = "none" THEN "close" ELSE err)
    /\ pc' = "done"
    /\ UNCHANGED <<runs, msg, prevErr, fs, fs0, cfgGiven, v1Config, options,
                   authEnabled, canOnboard, setupCalls, removeCalls, storeOnboarded,
                   setupCount, envTouched, usersUpgraded, warned, pureVars>>

\* The deferred func of runUpgradeE: the error of v2.close() is logged only.
DeferredClose ==
    /\ pc = "close"
    /\ \E failAt \in {CloseOrder[i] : i \in 1..Len(CloseOrder)} \cup {"none"} :
        /\ h' = close(h, failAt)
        /\ closeCalls' = SubSeq(CloseOrder, 1, closeReach(failAt))
    /\ pc' = "done"
    /\ UNCHANGED <<runs, err, msg, prevErr, fs, fs0, cfgGiven, v1Config, options,
                   authEnabled, canOnboard, setupCalls, removeCalls, storeOnboarded,
                   setupCount, envTouched, usersUpgraded, warned, pureVars>>

\* The operator runs the command again with the same options.
Retry ==
    /\ pc = "done"
    /\ runs < MaxRuns
    /\ runs' = runs + 1
    /\ prevErr' = err
    /\ pc' = "start"
    /\ err' = "none"
    /\ msg' = NoError
    /\ fs0' = fs
    /\ options' = InitOptions
    /\ authEnabled' = FALSE
    /\ h' = NoHandles
    /\ canOnboard' = "unknown"
    /\ setupCalls' = 0
    /\ removeCalls' = {}
    /\ closeCalls' = <<>>
    /\ usersUpgraded' = 0
    /\ warned' = FALSE
    /\ UNCHANGED <<fs, cfgGiven, v1Config, storeOnboarded, setupCount, envTouched,
                   pureVars>>

Next ==
    \/ Begin
    \/ ValidatePaths
    \/ UpgradeConfig
    \/ NewInfluxDBv1
    \/ EnvPlaceStore
    \/ NewInfluxDBv2
    \/ IsOnboarding
    \/ OnboardingRequest
    \/ SetupAdmin
    \/ SaveLocalConfig
    \/ UpgradeDatabases
    \/ UpgradeUsers
    \/ DeferredClose
    \/ Retry

Spec == Init /\ [][Next]_vars

\* runUpgradeE is one sequential thread and every call it makes returns, so a
\* step that can be taken is taken.
SpecLive == Spec /\ WF_vars(Next)

(***************************************************************************)
(* configV1.dbURL on its own: every bind address up to MaxLen characters   *)
(***************************************************************************)
PipeIdle ==
    /\ pc = "idle"
    /\ runs = 0
    /\ err = "none"
    /\ msg = NoError
    /\ prevErr = "none"
    /\ fs = [dbDir |-> "absent", metaDb |-> "absent", configFile |-> "absent",
             v2Config |-> "absent", bolt |-> "absent", engine |-> "absent",
             cliConfigs |-> "absent", cq |-> "absent", log |-> "absent"]
    /\ fs0 = fs
    /\ cfgGiven = FALSE
    /\ v1Config = NoConfig
    /\ options = InitOptions
    /\ authEnabled = FALSE
    /\ h = NoHandles
    /\ canOnboard = "unknown"
    /\ setupCalls = 0
    /\ removeCalls = {}
    /\ closeCalls = <<>>
    /\ storeOnboarded = FALSE
    /\ setupCount = 0
    /\ envTouched = FALSE
    /\ usersUpgraded = 0
    /\ warned = FALSE

DbURLInit ==
    /\ PipeIdle
    /\ MigIdle
    /\ address \in Addresses
    /\ https \in BOOLEAN
    /\ urlHost = <<>>
    /\ urlStr = <<>>
    /\ urlPc = "call"

CallDbURL ==
    /\ urlPc = "call"
    /\ urlHost' = dbURLHost(address)
    /\ urlStr' = dbURL(address, https)
    /\ urlPc' = "ret"
    /\ UNCHANGED <<address, https, pipeVars, migVars>>

DbURLNext == CallDbURL

SpecDbURL == DbURLInit /\ [][DbURLNext]_vars

(***************************************************************************)
(* The schema migrator (migration.Migrator.Up) on its own: Up called up to *)
(* MaxUps times on one store with one migration list                       *)
(***************************************************************************)
Ids == 1..NumIds

Range(q) == {q[i] : i \in 1..Len(q)}

\* The migration lists: sequences of distinct identifiers.
MigrationLists ==
    {q \in UNION {[1..n -> Ids] : n \in 0..NumIds} :
        \A i, j \in 1..Len(q) : i # j => q[i] # q[j]}

\* Where an Up can stop: 0 when no migration fails, else the index of the
\* pending migration whose effect fails.
FailPoints(specs, applied) == {0} \cup ((Len(applied) + 1)..Len(specs))

migratorUp_Reapply(specs, applied, failAt) ==
    SubSeq(specs, 1, IF failAt = 0 THEN Len(specs) ELSE failAt - 1)

\* Migrator.Up: the migrations it applies, in order: those of the list after
\* the ones the store records, up to the first that fails.
migratorUp(specs, applied, failAt) ==
    SubSeq(specs, Len(applied) + 1, IF failAt = 0 THEN Len(specs) ELSE failAt - 1)

Occurrences(q, id) == Cardinality({i \in 1..Len(q) : q[i] = id})

MigInit ==
    /\ PipeIdle
    /\ UrlIdle
    /\ migSpecs \in MigrationLists
    /\ \E k \in 0..Len(migSpecs) : migApplied = SubSeq(migSpecs, 1, k)
    /\ migBefore = migApplied
    /\ migCount = [i \in Ids |-> Occurrences(migApplied, i)]
    /\ migUps = 0
    /\ migLastNew = 0
    /\ migLastOk = FALSE
    /\ migOkBefore = FALSE

\* One call of Up: each applied migration runs its effect and is recorded in
\* the store as one unit.
MigratorUp ==
    /\ migUps < MaxUps
    /\ \E failAt \in FailPoints(migSpecs, migApplied) :
        LET new == migratorUp(migSpecs, migApplied, failAt)
        IN /\ migApplied' = migApplied \o new
           /\ migCount' = [i \in Ids |-> migCount[i] + Occurrences(new, i)]
           /\ migLastNew' = Len(new)
           /\ migLastOk' = (failAt = 0)
    /\ migBefore' = migApplied
    /\ migOkBefore' = migLastOk
    /\ migUps' = migUps + 1
    /\ UNCHANGED <<migSpecs, pipeVars, urlVars>>

MigNext == MigratorUp

SpecMigrator == MigInit /\ [][MigNext]_vars

(***************************************************************************)
(* Properties                                                              *)
(***************************************************************************)
Returned == pc = "done"

\* validatePaths has run in this invocation.
Validated == pc \notin {"idle", "start", "validatePaths"} /\ err \notin {"logLevel", "logBuild"}

\* The errors runUpgradeE returns from newInfluxDBv2.
BootstrapErrors == {V2Steps[i] : i \in 1..Len(V2Steps)}

TargetPaths == {"v2Config", "bolt", "engine", "cliConfigs", "cq"}

\* C1: the two deletions of the rollback are called exactly when
\* upgradeDatabases returned an error; a run that fails in any other phase
\* calls neither and leaves the bolt file and the engine directory in place.
C1_RollbackOnlyForDatabases ==
    /\ removeCalls # {} => (err = "upgradeDatabases" /\ removeCalls = RollbackCalls)
    /\ (pc \in {"close", "done"} /\ err = "upgradeDatabases") => removeCalls = RollbackCalls
    /\ (pc \in {"close", "done"} /\ err # "upgradeDatabases") =>
        /\ removeCalls = {}
        /\ Exists(fs0, "bolt") => Exists(fs, "bolt")
        /\ Exists(fs0, "engine") => Exists(fs, "engine")
        /\ h.boltClient # "none" => Exists(fs, "bolt")

C1_Witness ==
    Returned /\ err = "upgradeDatabases" /\ removeCalls = RollbackCalls

\* C2: after a run that failed in upgradeDatabases and whose rollback removed
\* the bolt file and the engine directory, the same command run again with
\* nothing cleaned up in between is not rejected by validatePaths.
C2_RetryAfterRollbackPasses ==
    (runs > 1 /\ prevErr = "upgradeDatabases" /\ ~envTouched
        /\ fs0.bolt = "absent" /\ fs0.engine = "absent" /\ Validated)
    => err # "validatePaths"

\* C3: when newInfluxDBv2 returns an error, no handle it acquired is still open.
C3_BootstrapFailureReleases ==
    (Returned /\ err \in BootstrapErrors) =>
        (h.boltClient # "open" /\ h.store # "open" /\ h.meta # "open")

\* C4: when runUpgradeE returns, no handle acquired during the run is open.
C4_AllHandlesClosedOnReturn ==
    Returned =>
        \A x \in {"v1meta", "boltClient", "store", "meta", "engine"} : h[x] # "open"

\* C5: when IsOnboarding reports that the store is already onboarded, the run
\* fails with the "already set up" error, setupAdmin is not called, no deletion
\* is called, and the bolt file and the engine directory stay as they were.
C5_AlreadyOnboardedFailsUntouched ==
    canOnboard = "false" =>
        /\ pc \in {"close", "done"}
        /\ err = "alreadySetUp"
        /\ setupCalls = 0
        /\ removeCalls = {}
        /\ fs.bolt = "file"
        /\ fs.engine = fs0.engine

C5_Witness == Returned /\ canOnboard = "false" /\ err = "alreadySetUp"

\* C6: over all runs, at most one onboarding operation is applied to the bolt
\* file that is on disk; a run calls setupAdmin at most once, and only after
\* IsOnboarding has reported that the store was never onboarded.
C6_OnboardAtMostOnce ==
    /\ setupCount <= 1
    /\ setupCalls <= 1
    /\ setupCalls > 0 => canOnboard = "true"

C6_Witness ==
    /\ runs = 2
    /\ ~envTouched
    /\ setupCount = 1
    /\ Returned
    /\ err = "validatePaths"
    /\ msg.kind = "boltPresent"

\* C7: a run that validatePaths rejects returns with every target path as it
\* was when the run started and no handle acquired; a non-empty engine
\* directory always makes validatePaths reject the run.
C7_RejectedRunWritesNothing ==
    /\ err = "validatePaths" =>
        /\ \A p \in Paths \ {"log"} : fs[p] = fs0[p]
        /\ h = NoHandles
        /\ setupCalls = 0
    /\ (Validated /\ fs0.engine = "nonemptydir") => err = "validatePaths"

C7_Witness ==
    Returned /\ err = "validatePaths" /\ msg.kind = "engineNotEmpty"

\* The preconditions of the upgrade on the filesystem, as the claim lists them.
PathsUsable(f, given) ==
    /\ f.dbDir = "dir"
    /\ f.metaDb # "absent"
    /\ given => (f.configFile # "absent" /\ f.v2Config = "absent")
    /\ f.bolt = "absent"
    /\ f.engine \in {"absent", "emptydir"}
    /\ f.cliConfigs = "absent"
    /\ f.cq = "absent"

\* C8: validatePaths succeeds exactly when the source root is a directory,
\* meta.db exists, a given config file exists and its translated path does not,
\* the bolt path is absent, the engine path is absent or an empty directory, and
\* the CLI-config and continuous-query paths are absent.
C8_ValidateExactlyWhenUsable ==
    Validated => ((err # "validatePaths") <=> PathsUsable(fs0, cfgGiven))

C8_Witness ==
    pc = "upgradeConfig" /\ cfgGiven /\ fs.engine = "emptydir" /\ msg.kind = "ok"

\* The violations validatePaths reports, in the order it checks them. The
\* failure to list the engine directory sits between "not a directory" and
\* "not empty".
ViolationOrder ==
    <<"dbDirMissing", "dbDirNotDir", "metaDbMissing", "configMissing", "v2ConfigPresent",
      "boltPresent", "engineNotDir", "readDirErr", "engineNotEmpty", "cliPresent",
      "cqPresent">>

IsViolated(k, f, given) ==
    CASE k = "dbDirMissing" -> f.dbDir = "absent"
      [] k = "dbDirNotDir" -> f.dbDir = "file"
      [] k = "metaDbMissing" -> f.metaDb = "absent"
      [] k = "configMissing" -> given /\ f.configFile = "absent"
      [] k = "v2ConfigPresent" -> given /\ f.v2Config # "absent"
      [] k = "boltPresent" -> f.bolt # "absent"
      [] k = "engineNotDir" -> f.engine = "file"
      [] k = "readDirErr" -> f.engine = "unreadabledir"
      [] k = "engineNotEmpty" -> f.engine = "nonemptydir"
      [] k = "cliPresent" -> f.cliConfigs # "absent"
      [] k = "cqPresent" -> f.cq # "absent"

OffendingPath(k) ==
    CASE k \in {"dbDirMissing", "dbDirNotDir"} -> "dbDir"
      [] k = "metaDbMissing" -> "metaDb"
      [] k = "configMissing" -> "configFile"
      [] k = "v2ConfigPresent" -> "v2Config"
      [] k = "boltPresent" -> "bolt"
      [] k \in {"engineNotDir", "readDirErr", "engineNotEmpty"} -> "engine"
      [] k = "cliPresent" -> "cliConfigs"
      [] k = "cqPresent" -> "cq"

ViolatedAt(f, given) == {i \in 1..Len(ViolationOrder) : IsViolated(ViolationOrder[i], f, given)}

\* C9: the error of validatePaths is the violation that comes first in the
\* fixed order among all the violated preconditions, and it names the path
\* that violates it.
C9_FirstViolationReported ==
    err = "validatePaths" =>
        /\ ViolatedAt(fs0, cfgGiven) # {}
        /\ \E i \in ViolatedAt(fs0, cfgGiven) :
            /\ \A j \in ViolatedAt(fs0, cfgGiven) : i <= j
            /\ msg.kind = ViolationOrder[i]
            /\ msg.path = OffendingPath(ViolationOrder[i])

C9_Witness ==
    /\ err = "validatePaths"
    /\ msg.kind = "boltPresent"
    /\ fs.engine = "nonemptydir"
    /\ fs.cliConfigs = "file"
    /\ fs.cq = "file"

\* C10 as stated: the host is "localhost" + address for an address that starts
\* with ":", and the address unchanged for every other one, the empty one
\* included.
C10_HostAsStated ==
    urlPc = "ret" =>
        urlHost = (IF HasPrefix(address, <<":">>) THEN Localhost \o address ELSE address)

\* C10 as amended: the host is "localhost:8086" for the empty address,
\* "localhost" + address for an address that starts with ":", and the address
\* unchanged for every other one.
C10_HostWithDefault ==
    urlPc = "ret" =>
        urlHost = (IF address = <<>> THEN Localhost \o DefaultAddress
                   ELSE IF address[1] = ":" THEN Localhost \o address
                   ELSE address)

C10_Witness ==
    urlPc = "ret" /\ address = <<>> /\ urlHost = Localhost \o DefaultAddress

\* C11: no migration runs more than once on a store and the set the store
\* records never loses a member; an Up that follows an Up which completed
\* applies nothing and leaves the recorded set as it was.
C11_MigratorIdempotent ==
    /\ \A i \in Ids : migCount[i] <= 1
    /\ Range(migBefore) \subseteq Range(migApplied)
    /\ (migUps >= 2 /\ migOkBefore) =>
        /\ migLastNew = 0
        /\ migLastOk
        /\ migApplied = migBefore
        /\ Range(migApplied) = Range(migSpecs)

C11_Witness ==
    migUps = 2 /\ migOkBefore /\ migLastNew = 0 /\ Len(migApplied) = NumIds

\* The legacy auth-enabled flag: false when no config file was given.
LegacyAuthEnabled == cfgGiven /\ v1Config.AuthEnabled

\* C12: a run whose user migration succeeded has logged the warning exactly
\* when it migrated at least one user and the legacy auth-enabled flag is
\* false; a run that logged it returns success.
C12_WarnIffUsersWithoutAuth ==
    /\ (pc \in {"close", "done"} /\ err = "none") =>
        (warned <=> (usersUpgraded > 0 /\ ~LegacyAuthEnabled))
    /\ warned => (pc \in {"close", "done"} /\ err = "none")

C12_Witness ==
    Returned /\ err = "none" /\ warned /\ usersUpgraded = MaxUsers /\ ~LegacyAuthEnabled

SourceFields(o) == <<o.metaDir, o.dataDir, o.walDir, o.dbURL>>

TargetFields(o) == <<o.orgID, o.userID, o.token>>

\* C13 as stated: once validatePaths has passed, no later step of the run
\* changes an option value.
C13_OptionsFrozenAfterValidation ==
    [][pc \notin {"idle", "start", "validatePaths", "done"} => options' = options]_vars

\* C13 as amended: within a run the options change in three steps only:
\* validatePaths fills the source directories, the config translation
\* overwrites them and sets the base URL, and the step after setupAdmin sets
\* org id, user id and token; every other step leaves the options alone.
C13_OptionsChangeInThreeSteps ==
    [][/\ SourceFields(options') # SourceFields(options)
            => pc \in {"validatePaths", "upgradeConfig", "done"}
       /\ TargetFields(options') # TargetFields(options)
            => pc \in {"setupAdmin", "done"}]_vars

C13_Witness ==
    /\ pc = "saveLocalConfig"
    /\ cfgGiven
    /\ options.metaDir = "/other/meta"
    /\ options.token = "token"

\* The scenario of C14: a usable source, no legacy config, no target path in
\* place, and no other process writing to the target.
CleanStart ==
    /\ ~cfgGiven
    /\ ~envTouched
    /\ fs0.dbDir = "dir"
    /\ fs0.metaDb = "file"
    /\ \A p \in TargetPaths : fs0[p] = "absent"

\* The errors that are a failure reported by a collaborator of runUpgradeE.
ReportedFailures ==
    {"logLevel", "logBuild", "newInfluxDBv1", "isOnboarding", "onboardingRequest",
     "setupAdmin", "saveLocalConfig", "upgradeDatabases", "upgradeUsers"}
    \cup BootstrapErrors

\* C14: a run from the clean scenario returns success unless a collaborator
\* reported a failure; a run that returns success has performed exactly one
\* onboarding operation, whose org id, user id and token it holds; and every
\* run terminates, with success or with an error.
C14_CleanRunSucceedsAndAllTerminate ==
    /\ []((Returned /\ CleanStart) => err \in {"none"} \cup ReportedFailures)
    /\ []((Returned /\ err = "none") =>
            /\ setupCalls = 1
            /\ setupCount = 1
            /\ storeOnboarded
            /\ TargetFields(options) = <<1, 1, "token">>)
    /\ <>[]Returned

C14_Witness ==
    Returned /\ CleanStart /\ runs = 1 /\ err = "none" /\ setupCalls = 1

\* The positions of runUpgradeE at which a phase starts, in program order;
\* "onboardingRequest" and "setupAdmin" together are the onboarding phase.
PhaseOrder ==
    <<"start", "validatePaths", "upgradeConfig", "newInfluxDBv1", "newInfluxDBv2",
      "isOnboarding", "onboardingRequest", "setupAdmin", "saveLocalConfig",
      "upgradeDatabases", "upgradeUsers">>

Phases == {PhaseOrder[i] : i \in 1..Len(PhaseOrder)}

Rank(p) == CHOOSE i \in 1..Len(PhaseOrder) : PhaseOrder[i] = p

\* C15: a phase is entered only from the phase before it in the fixed order
\* and only while no phase of the run has failed; the config translation
\* writes only when a config was given; a run returns success only from the
\* end of the user migration.
C15_PhasesInOrder ==
    /\ [](pc \in Phases => err = "none")
    /\ [][pc' # pc =>
            \/ pc' \in {"close", "done"}
            \/ pc = "done" /\ pc' = "start"
            \/ pc \in Phases /\ pc' \in Phases /\ Rank(pc') = Rank(pc) + 1]_vars
    /\ [][(pc = "upgradeConfig" /\ ~cfgGiven) => (fs' = fs /\ options' = options)]_vars
    /\ [][(pc' \in {"close", "done"} /\ pc' # pc /\ err' = "none") =>
            pc \in {"upgradeUsers", "close"}]_vars

C15_Witness ==
    Returned /\ err = "none" /\ cfgGiven /\ fs.v2Config = "file" /\ fs.cliConfigs = "file"

\* A deletion of the rollback was called on p and p is still there.
RemoveFailed(p) == p \in removeCalls /\ Exists(fs, p)

\* C16: the rollback calls both deletions whatever either one returns, and a
\* run whose deletion failed still returns the error of upgradeDatabases.
C16_RollbackIsBestEffort ==
    /\ removeCalls # {} => removeCalls = RollbackCalls
    /\ \A p \in RollbackCalls :
        RemoveFailed(p) => (pc \in {"close", "done"} /\ err = "upgradeDatabases")

C16_Witness ==
    /\ Returned
    /\ err = "upgradeDatabases"
    /\ RemoveFailed("bolt")
    /\ fs0.engine = "emptydir"
    /\ fs.engine = "absent"

CloseFailed == \E x \in {"meta", "boltClient", "store"} : h[x] = "closeErr"

\* C17: the deferred close leaves the result of the run as the phases made
\* it, whether or not one of its Close calls fails: a phase error stays that
\* error and success stays success.
C17_CloseNeverChangesResult ==
    /\ [][pc = "close" => err' = err]_vars
    /\ [](CloseFailed => err \in {"none", "alreadySetUp"} \cup ReportedFailures)

C17_Witness == Returned /\ err = "none" /\ h.boltClient = "closeErr"

Reverse(q) == [i \in 1..Len(q) |-> q[Len(q) + 1 - i]]

\* C18: a release in which no Close fails closes the engine and the
\* metadata-store handles in the reverse of the order of their acquisition.
C18_ReleaseInReverseOrder ==
    (Returned /\ closeCalls # <<>> /\ ~CloseFailed) => closeCalls = Reverse(AcquireOrder)

\* The directory whose meta.db validatePaths looked for.
ValidatedMetaDir == populateDirs(InitOptions).metaDir

\* C19: the directory the 1.x meta client was opened on (options.source.metaDir
\* at the call of newInfluxDBv1) is the one validatePaths checked.
C19_OpensTheValidatedMetaDir ==
    h.v1meta = "open" => options.metaDir = ValidatedMetaDir

\* The errors of the phases from the schema migration onward, the database
\* migration excepted.
LaterErrors ==
    (BootstrapErrors \ {"boltOpen"})
    \cup {"isOnboarding", "alreadySetUp", "onboardingRequest", "setupAdmin",
          "saveLocalConfig", "upgradeUsers"}

\* C20: a run that fails in one of these phases returns with the bolt file on
\* disk, and the same command run again with nothing cleaned up is rejected by
\* validatePaths: it opens no handle and makes no onboarding check or call.
C20_RetryAfterLaterFailureRejected ==
    /\ (Returned /\ err \in LaterErrors) => fs.bolt = "file"
    /\ (runs > 1 /\ prevErr \in LaterErrors /\ Validated) =>
        /\ Returned
        /\ err = "validatePaths"
        /\ h = NoHandles
        /\ canOnboard = "unknown"
        /\ setupCalls = 0

C20_Witness ==
    /\ runs = 2
    /\ prevErr = "setupAdmin"
    /\ Returned
    /\ err = "validatePaths"
    /\ msg.kind = "boltPresent"

====
